---- MODULE Spec2Model ----
(***************************************************************************)
(* OCT-AI backend: upload -> inference -> report pipeline.                 *)
(*                                                                         *)
(* Strings are sequences of one-character strings, so that prefix tests,   *)
(* rsplit, lower() and filename sanitising are computed, not assumed.      *)
(*                                                                         *)
(* Four specifications share the module:                                   *)
(*   Spec        the HTTP handlers, one request handled after another      *)
(*   SpecConc    predict/report requests on several threads, get_model     *)
(*               split at its test, load and store                         *)
(*   SpecAllowed is_allowed_file on every bounded filename                 *)
(*   SpecInfer   predict_oct on every bounded classifier output            *)
(***************************************************************************)
EXTENDS Naturals, Sequences, FiniteSets

VARIABLES
    uploads,      \* UPLOAD_FOLDER: saved name -> file body
    reports,      \* REPORTS_FOLDER: file name -> pdf body
    _model,       \* utils.inference._model, the process-wide cache slot
    resp,         \* the response of the request handled last
    issued,       \* history: image_ids returned by successful uploads
    reportedIds,  \* history: ids for which a report was built
    nReports,     \* history: number of successful reports
    nLoads,       \* history: number of successful load_model calls
    loadFailed,   \* history: some load_model call raised
    pc,           \* SpecConc: per thread, position inside the handler
    treq,         \* SpecConc: per thread, the request being handled
    fname,        \* SpecAllowed: the filename under test
    allowedOut,   \* SpecAllowed: the answers is_allowed_file gave, in order
    probs,        \* SpecInfer: model.predict(x)[0]
    result        \* SpecInfer: what predict_oct returned

vars == <<uploads, reports, _model, resp, issued, reportedIds, nReports,
          nLoads, loadFailed, pc, treq, fname, allowedOut, probs, result>>

serverVars == <<uploads, reports, _model, resp, issued, reportedIds,
                nReports, nLoads, loadFailed>>
threadVars == <<pc, treq>>
allowedVars == <<fname, allowedOut>>
inferVars == <<probs, result>>

(***************************************************************************)
(* Bounds                                                                  *)
(***************************************************************************)
MaxIds == 2          \* distinct values uuid4().hex[:8] takes in the model
MaxReports == 2      \* successful reports in one run
NumThreads == 2      \* request threads of SpecConc
MaxNameLen == 5      \* length of the filenames of SpecAllowed
ProbLevels == 2      \* probabilities are k / ProbLevels, k in 0..ProbLevels

None == "None"

(***************************************************************************)
(* Strings                                                                 *)
(***************************************************************************)
StartsWith(s, p) ==
    /\ Len(p) <= Len(s)
    /\ SubSeq(s, 1, Len(p)) = p

Contains(s, c) == \E i \in 1..Len(s) : s[i] = c

\* str.lower() on the characters the model uses
LowerChar(c) ==
    CASE c = "P" -> "p"
      [] c = "N" -> "n"
      [] c = "G" -> "g"
      [] c = "J" -> "j"
      [] OTHER -> c

Lower(s) == [i \in 1..Len(s) |-> LowerChar(s[i])]

\* index of the last occurrence of c in s, 0 when there is none
LastIndexOf(s, c) ==
    IF Contains(s, c)
    THEN CHOOSE i \in 1..Len(s) :
            /\ s[i] = c
            /\ \A j \in (i+1)..Len(s) : s[j] # c
    ELSE 0

\* s.rsplit(c, 1)[1], for s that contains c
RSplitLast(s, c) == SubSeq(s, LastIndexOf(s, c) + 1, Len(s))

(***************************************************************************)
(* config.py                                                               *)
(***************************************************************************)
ALLOWED_EXTENSIONS ==
    { <<"p","n","g">>, <<"j","p","g">>, <<"j","p","e","g">>, <<"d","c","m">> }

CLASS_NAMES == <<"AMD", "CNV", "CSR", "DME", "DR", "DRUSEN", "MH", "NORMAL">>

(***************************************************************************)
(* utils/storage.py                                                        *)
(***************************************************************************)
is_allowed_file_suffix_any(filename, allowed_extensions) ==
    \* the extension is looked for anywhere among the dotted parts
    \E i \in 1..Len(filename) :
        /\ filename[i] = "."
        /\ \E e \in allowed_extensions :
              StartsWith(Lower(SubSeq(filename, i + 1, Len(filename))), e)

is_allowed_file(filename, allowed_extensions) ==
    IF ~Contains(filename, ".")
    THEN FALSE
    ELSE Lower(RSplitLast(filename, ".")) \in allowed_extensions

\* uuid.uuid4().hex[:8]: 32 random bits, of which the model keeps MaxIds values
HexDigits == <<"0","1","2","3","4","5","6","7","8","9","a","b","c","d","e","f">>

HexLen == 8

Hex8(i) == [k \in 1..HexLen |-> IF k < HexLen THEN "0" ELSE HexDigits[i]]

UuidHex8 == { Hex8(i) : i \in 1..MaxIds }

generate_image_id(hex8) == <<"o","c","t","_">> \o hex8

\* werkzeug.utils.secure_filename, on ASCII input
PathSeps == {"/"}

SafeChars ==
    {"a","b","t","x","p","n","g","P","N","G","j","e","d","c","m","J",
     "0","1","2","3","4","5","6","7","8","9","_",".","-"}

IsSafeChar(c) == c \in SafeChars

RECURSIVE LStrip(_, _)
LStrip(s, cs) ==
    IF s # <<>> /\ Head(s) \in cs THEN LStrip(Tail(s), cs) ELSE s

RECURSIVE RStrip(_, _)
RStrip(s, cs) ==
    IF s # <<>> /\ s[Len(s)] \in cs THEN RStrip(SubSeq(s, 1, Len(s) - 1), cs) ELSE s

Strip(s, cs) == RStrip(LStrip(s, cs), cs)

\* filename.replace(sep, " ")
ReplaceSeps(s) == [i \in 1..Len(s) |-> IF s[i] \in PathSeps THEN " " ELSE s[i]]

\* "_".join(s.split()), for s with no leading or trailing blank
RECURSIVE JoinWords(_)
JoinWords(s) ==
    IF s = <<>> THEN <<>>
    ELSE IF Head(s) = " " THEN <<"_">> \o JoinWords(LStrip(s, {" "}))
    ELSE <<Head(s)>> \o JoinWords(Tail(s))

secure_filename(filename) ==
    Strip(SelectSeq(JoinWords(Strip(ReplaceSeps(filename), {" "})), IsSafeChar),
          {".", "_"})

build_saved_filename(image_id, original_filename) ==
    (image_id \o <<"_">>) \o secure_filename(original_filename)

\* Python's None where a path is expected
NoPath == <<>>

\* The values find_image_path_by_id may return: os.listdir's order is
\* arbitrary, so any name with the prefix may be the first one found.
find_image_path_by_id(image_id, upload_folder) ==
    LET prefix == image_id \o <<"_">>
        found == { name \in DOMAIN upload_folder : StartsWith(name, prefix) }
    IN  IF found = {} THEN {NoPath} ELSE found

\* file.save(save_path): creates the file or replaces the one at that path
Save(dir, name, body) ==
    [n \in (DOMAIN dir) \cup {name} |-> IF n = name THEN body ELSE dir[n]]

EmptyDir == [n \in {} |-> None]

(***************************************************************************)
(* utils/inference.py                                                      *)
(***************************************************************************)
Loaded == "Model"

CacheIsEmptyAlways(m) == TRUE

\* `if _model is None`
CacheIsEmpty(m) == m = None

get_model_reload(m, loads) ==
    \* the slot is never consulted: every call loads
    IF loads THEN [model |-> Loaded, load |-> "ok"]
             ELSE [model |-> m, load |-> "failed"]

get_model_poisoned(m, loads) ==
    \* a failed load leaves a marker in the slot, so no later call loads
    IF CacheIsEmpty(m)
    THEN IF loads THEN [model |-> Loaded, load |-> "ok"]
                  ELSE [model |-> "Broken", load |-> "failed"]
    ELSE [model |-> m, load |-> "cached"]

\* get_model run to its end without interleaving: the slot afterwards and
\* what the call did.  `loads` is whether load_model returns (TRUE) or raises.
get_model(m, loads) ==
    IF CacheIsEmpty(m)
    THEN IF loads THEN [model |-> Loaded, load |-> "ok"]
                  ELSE [model |-> m, load |-> "failed"]
    ELSE [model |-> m, load |-> "cached"]

NumClasses == Len(CLASS_NAMES)

Max(S) == CHOOSE x \in S : \A y \in S : y <= x

ArgMin(p) ==
    CHOOSE i \in 1..Len(p) : \A j \in 1..Len(p) : p[i] <= p[j]

\* np.argmax: the first index holding the maximum (0-based in the source,
\* 1-based here)
ArgMax(p) ==
    CHOOSE i \in 1..Len(p) :
        /\ p[i] = Max({ p[j] : j \in 1..Len(p) })
        /\ \A j \in 1..(i-1) : p[j] # p[i]

IndexError == [error |-> "IndexError"]

\* predict_oct after get_model and the preprocessing: p is model.predict(x)[0].
\* class_names[i] and probs[i] raise IndexError out of range.
predict_oct(p, class_names) ==
    LET top_idx == ArgMax(p)
    IN  IF Len(p) < Len(class_names) \/ top_idx > Len(class_names)
        THEN IndexError
        ELSE [ predictions |->
                  [ l \in { class_names[i] : i \in 1..Len(class_names) } |->
                      p[CHOOSE i \in 1..Len(class_names) :
                          /\ class_names[i] = l
                          /\ \A j \in (i+1)..Len(class_names) : class_names[j] # l] ],
               top_disease |-> class_names[top_idx],
               confidence  |-> p[top_idx] ]

(***************************************************************************)
(* app.py: the handlers, each run from its first line to its response.     *)
(***************************************************************************)
OK == 200
BadRequest == 400
NotFound == 404
ServerError == 500

\* request.files.get("image"): absent, or a file with a name and a body
NoFile == [present |-> FALSE, filename |-> <<>>, body |-> "-"]

UploadNames ==
    { <<>>,
      <<"b","/","a",".","P","N","G">>,
      <<"a",".","t","x","t">> }

Bodies == {"scan1", "scan2"}

UploadFiles ==
    {NoFile} \cup
    { [present |-> TRUE, filename |-> f, body |-> b] : f \in UploadNames, b \in Bodies }

GeneratedIds == { generate_image_id(h) : h \in UuidHex8 }

\* The <image_id> of a request: every id an upload can return, a bare
\* "oct", an id followed by a part of a saved name, and an id nothing has.
FirstId == generate_image_id(Hex8(1))

UnusedId == <<"n","o">>

RequestIds ==
    GeneratedIds \cup { <<"o","c","t">>, UnusedId, (FirstId \o <<"_">>) \o <<"b">> }

ReportIds == { FirstId, <<"o","c","t">>, UnusedId }

MaskIds == { FirstId, UnusedId }

\* model.predict(x)[0] for an image of class k
OneHot(k) == [i \in 1..NumClasses |-> IF i = k THEN ProbLevels ELSE 0]

SampleOutputs == { OneHot(1), OneHot(NumClasses) }

Response(op, id, status, load, top) ==
    [op |-> op, id |-> id, status |-> status, load |-> load, top |-> top]

NoResponse == Response("none", <<>>, 0, "none", None)

\* the bytes of the n-th report built: its generated_at differs from that
\* of every earlier one
PdfBody(n) == n

InitServer ==
    /\ uploads = EmptyDir
    /\ reports = EmptyDir
    /\ _model = None
    /\ resp = NoResponse
    /\ issued = {}
    /\ reportedIds = {}
    /\ nReports = 0
    /\ nLoads = 0
    /\ loadFailed = FALSE

cacheVars == <<_model, nLoads, loadFailed>>

index ==
    /\ resp' = Response("index", <<>>, OK, "none", None)
    /\ UNCHANGED <<uploads, reports, issued, reportedIds, nReports, cacheVars>>

\* send_from_directory: the file, or 404 when RESULTS_FOLDER has none of that name
get_result_file(exists) ==
    /\ resp' = Response("results", <<>>, IF exists THEN OK ELSE NotFound, "none", None)
    /\ UNCHANGED <<uploads, reports, issued, reportedIds, nReports, cacheVars>>

upload_image(file, hex8) ==
    \/ /\ (~file.present \/ file.filename = <<>>)
       /\ resp' = Response("upload", <<>>, BadRequest, "none", None)
       /\ UNCHANGED <<uploads, reports, issued, reportedIds, nReports, cacheVars>>
    \/ /\ file.present /\ file.filename # <<>>
       /\ ~is_allowed_file(file.filename, ALLOWED_EXTENSIONS)
       /\ resp' = Response("upload", <<>>, BadRequest, "none", None)
       /\ UNCHANGED <<uploads, reports, issued, reportedIds, nReports, cacheVars>>
    \/ /\ file.present /\ file.filename # <<>>
       /\ is_allowed_file(file.filename, ALLOWED_EXTENSIONS)
       /\ LET image_id == generate_image_id(hex8)
              safe_name == build_saved_filename(image_id, file.filename)
          IN  /\ uploads' = Save(uploads, safe_name, file.body)
              /\ resp' = Response("upload", image_id, OK, "none", None)
              /\ issued' = issued \cup {image_id}
       /\ UNCHANGED <<reports, reportedIds, nReports, cacheVars>>

\* predict_oct as the handlers call it: get_model, then load_img (which
\* raises when the file does not decode), then the forward pass.
Inference(loads, decodes, out) ==
    LET g == get_model(_model, loads)
        r == IF g.load = "failed" \/ ~decodes THEN IndexError
             ELSE predict_oct(out, CLASS_NAMES)
    IN  [model |-> g.model, load |-> g.load,
         ok |-> g.load # "failed" /\ decodes /\ r # IndexError,
         top |-> IF g.load # "failed" /\ decodes /\ r # IndexError
                 THEN r.top_disease ELSE None]

CacheAfter(inf) ==
    /\ _model' = inf.model
    /\ nLoads' = IF inf.load = "ok" THEN nLoads + 1 ELSE nLoads
    /\ loadFailed' = (loadFailed \/ inf.load = "failed")

predict(image_id, loads, decodes, out) ==
    \E image_path \in find_image_path_by_id(image_id, uploads) :
        \/ /\ image_path = NoPath
           /\ resp' = Response("predict", image_id, NotFound, "none", None)
           /\ UNCHANGED <<uploads, reports, issued, reportedIds, nReports,
                          cacheVars>>
        \/ /\ image_path # NoPath
           /\ LET inf == Inference(loads, decodes, out)
              IN  /\ CacheAfter(inf)
                  /\ resp' = Response("predict", image_id,
                                      IF inf.ok THEN OK ELSE ServerError,
                                      inf.load, inf.top)
           /\ UNCHANGED <<uploads, reports, issued, reportedIds, nReports>>

\* the stub: a fixed payload for any id
mask(image_id) ==
    /\ resp' = Response("mask", image_id, OK, "none", None)
    /\ UNCHANGED <<uploads, reports, issued, reportedIds, nReports, cacheVars>>

ReportPathShared(image_id) == <<"r","e","p","o","r","t",".","p","d","f">>

\* os.path.join(REPORTS_FOLDER, f"{image_id}_report.pdf"), as a name in REPORTS_FOLDER
ReportPath(image_id) == image_id \o <<"_","r","e","p","o","r","t",".","p","d","f">>

generate_pdf_report(image_id, loads, decodes, out) ==
    \E image_path \in find_image_path_by_id(image_id, uploads) :
        \/ /\ image_path = NoPath
           /\ resp' = Response("report", image_id, NotFound, "none", None)
           /\ UNCHANGED <<uploads, reports, issued, reportedIds, nReports,
                          cacheVars>>
        \/ /\ image_path # NoPath
           /\ LET inf == Inference(loads, decodes, out)
              IN  /\ ~inf.ok
                  /\ CacheAfter(inf)
                  /\ resp' = Response("report", image_id, ServerError, inf.load, None)
           /\ UNCHANGED <<uploads, reports, issued, reportedIds, nReports>>
        \/ /\ image_path # NoPath
           /\ nReports < MaxReports
           /\ LET inf == Inference(loads, decodes, out)
              IN  /\ inf.ok
                  /\ CacheAfter(inf)
                  /\ reports' = Save(reports, ReportPath(image_id), PdfBody(nReports + 1))
                  /\ resp' = Response("report", image_id, OK, inf.load, inf.top)
           /\ reportedIds' = reportedIds \cup {image_id}
           /\ nReports' = nReports + 1
           /\ UNCHANGED <<uploads, issued>>

(***************************************************************************)
(* SpecConc: predict and report on NumThreads threads.  get_model is split *)
(* where another thread can run in between: the test of the slot, the call *)
(* of load_model, the assignment to the slot.                              *)
(***************************************************************************)
Threads == 1..NumThreads

NoRequest == [op |-> "none", id |-> <<>>, load |-> "none"]

InitThreads ==
    /\ pc = [t \in Threads |-> "idle"]
    /\ treq = [t \in Threads |-> NoRequest]

\* the handler up to its call of predict_oct
Begin(t, op, image_id) ==
    /\ pc[t] = "idle"
    /\ \E image_path \in find_image_path_by_id(image_id, uploads) :
        \/ /\ image_path = NoPath
           /\ resp' = Response(op, image_id, NotFound, "none", None)
           /\ UNCHANGED <<pc, treq>>
        \/ /\ image_path # NoPath
           /\ pc' = [pc EXCEPT ![t] = "test"]
           /\ treq' = [treq EXCEPT ![t] = [op |-> op, id |-> image_id, load |-> "none"]]
           /\ UNCHANGED resp
    /\ UNCHANGED <<uploads, reports, issued, reportedIds, nReports, cacheVars>>

\* `if _model is None`
TestCache(t) ==
    /\ pc[t] = "test"
    /\ IF CacheIsEmpty(_model)
       THEN /\ pc' = [pc EXCEPT ![t] = "load"]
            /\ UNCHANGED treq
       ELSE /\ pc' = [pc EXCEPT ![t] = "infer"]
            /\ treq' = [treq EXCEPT ![t].load = "cached"]
    /\ UNCHANGED serverVars

\* load_model(model_path): returns the model, or raises and ends the request
LoadModel(t, loads) ==
    /\ pc[t] = "load"
    /\ IF loads
       THEN /\ nLoads' = nLoads + 1
            /\ pc' = [pc EXCEPT ![t] = "store"]
            /\ treq' = [treq EXCEPT ![t].load = "ok"]
            /\ UNCHANGED <<resp, loadFailed>>
       ELSE /\ loadFailed' = TRUE
            /\ resp' = Response(treq[t].op, treq[t].id, ServerError, "failed", None)
            /\ pc' = [pc EXCEPT ![t] = "idle"]
            /\ treq' = [treq EXCEPT ![t] = NoRequest]
            /\ UNCHANGED nLoads
    /\ UNCHANGED <<uploads, reports, _model, issued, reportedIds, nReports>>

\* `_model = ...`
StoreModel(t) ==
    /\ pc[t] = "store"
    /\ _model' = Loaded
    /\ pc' = [pc EXCEPT ![t] = "infer"]
    /\ UNCHANGED <<uploads, reports, resp, issued, reportedIds, nReports,
                   nLoads, loadFailed, treq>>

\* the rest of predict_oct and of the handler
Finish(t, decodes, out) ==
    /\ pc[t] = "infer"
    /\ LET r == IF decodes THEN predict_oct(out, CLASS_NAMES) ELSE IndexError
           ok == decodes /\ r # IndexError
           top == IF ok THEN r.top_disease ELSE None
       IN  \/ /\ ~ok
              /\ resp' = Response(treq[t].op, treq[t].id, ServerError, treq[t].load, None)
              /\ UNCHANGED <<reports, reportedIds, nReports>>
           \/ /\ ok
              /\ treq[t].op = "predict"
              /\ resp' = Response("predict", treq[t].id, OK, treq[t].load, top)
              /\ UNCHANGED <<reports, reportedIds, nReports>>
           \/ /\ ok
              /\ treq[t].op = "report"
              /\ nReports < MaxReports
              /\ reports' = Save(reports, ReportPath(treq[t].id), PdfBody(nReports + 1))
              /\ resp' = Response("report", treq[t].id, OK, treq[t].load, top)
              /\ reportedIds' = reportedIds \cup {treq[t].id}
              /\ nReports' = nReports + 1
    /\ pc' = [pc EXCEPT ![t] = "idle"]
    /\ treq' = [treq EXCEPT ![t] = NoRequest]
    /\ UNCHANGED <<uploads, issued, cacheVars>>

(***************************************************************************)
(* SpecAllowed: is_allowed_file applied to every filename of at most       *)
(* MaxNameLen characters over NameAlphabet.                                *)
(***************************************************************************)
NameAlphabet == {".", "p", "n", "g", "j", "e", "d", "c", "m", "P"}

Filenames == UNION { [1..n -> NameAlphabet] : n \in 0..MaxNameLen }

InitAllowedIdle ==
    /\ fname = <<>>
    /\ allowedOut = <<>>

\* a caller hands a filename to is_allowed_file and keeps the answer
CheckAllowed ==
    /\ allowedOut = <<>>
    /\ allowedOut' = <<is_allowed_file(fname, ALLOWED_EXTENSIONS)>>
    /\ UNCHANGED <<fname, serverVars, threadVars, inferVars>>

(***************************************************************************)
(* SpecInfer: predict_oct applied to every classifier output of            *)
(* NumClasses - 1 .. NumClasses + 1 probabilities k / ProbLevels.          *)
(***************************************************************************)
OutputLens == { n \in 1..(NumClasses + 1) : n + 1 >= NumClasses }

ModelOutputs == UNION { [1..n -> 0..ProbLevels] : n \in OutputLens }

NoResult == [error |-> "not called"]

InitInferIdle ==
    /\ probs = <<>>
    /\ result = NoResult

RunPredictOct ==
    /\ result = NoResult
    /\ result' = predict_oct(probs, CLASS_NAMES)
    /\ UNCHANGED <<probs, serverVars, threadVars, allowedVars>>

(***************************************************************************)
(* The specifications                                                      *)
(***************************************************************************)
Init ==
    /\ InitServer
    /\ InitThreads
    /\ InitAllowedIdle
    /\ InitInferIdle

Next ==
    \/ /\ index
       /\ UNCHANGED <<threadVars, allowedVars, inferVars>>
    \/ /\ \E exists \in BOOLEAN : get_result_file(exists)
       /\ UNCHANGED <<threadVars, allowedVars, inferVars>>
    \/ /\ \E file \in UploadFiles, hex8 \in UuidHex8 : upload_image(file, hex8)
       /\ UNCHANGED <<threadVars, allowedVars, inferVars>>
    \/ /\ \E image_id \in RequestIds, loads \in BOOLEAN, decodes \in BOOLEAN,
             out \in SampleOutputs : predict(image_id, loads, decodes, out)
       /\ UNCHANGED <<threadVars, allowedVars, inferVars>>
    \/ /\ \E image_id \in MaskIds : mask(image_id)
       /\ UNCHANGED <<threadVars, allowedVars, inferVars>>
    \/ /\ \E image_id \in ReportIds, loads \in BOOLEAN, decodes \in BOOLEAN,
             out \in SampleOutputs : generate_pdf_report(image_id, loads, decodes, out)
       /\ UNCHANGED <<threadVars, allowedVars, inferVars>>

Spec == Init /\ [][Next]_vars

ConcUploadFiles == { f \in UploadFiles : f.body # "scan2" }

ConcRequestIds == { FirstId, UnusedId }

NextConc ==
    \/ /\ \E file \in ConcUploadFiles : upload_image(file, Hex8(1))
       /\ UNCHANGED <<threadVars, allowedVars, inferVars>>
    \/ /\ \E t \in Threads, op \in {"predict", "report"}, image_id \in ConcRequestIds :
             Begin(t, op, image_id)
       /\ UNCHANGED <<allowedVars, inferVars>>
    \/ /\ \E t \in Threads : TestCache(t)
       /\ UNCHANGED <<allowedVars, inferVars>>
    \/ /\ \E t \in Threads, loads \in BOOLEAN : LoadModel(t, loads)
       /\ UNCHANGED <<allowedVars, inferVars>>
    \/ /\ \E t \in Threads : StoreModel(t)
       /\ UNCHANGED <<allowedVars, inferVars>>
    \/ /\ \E t \in Threads, decodes \in BOOLEAN, out \in SampleOutputs :
             Finish(t, decodes, out)
       /\ UNCHANGED <<allowedVars, inferVars>>

SpecConc == Init /\ [][NextConc]_vars

InitAllowed ==
    /\ InitServer
    /\ InitThreads
    /\ InitInferIdle
    /\ fname \in Filenames
    /\ allowedOut = <<>>

NextAllowed == CheckAllowed

SpecAllowed == InitAllowed /\ [][NextAllowed]_vars

InitInfer ==
    /\ InitServer
    /\ InitThreads
    /\ InitAllowedIdle
    /\ probs \in ModelOutputs
    /\ result = NoResult

NextInfer == RunPredictOct

SpecInfer == InitInfer /\ [][NextInfer]_vars

(***************************************************************************)
(* Properties                                                              *)
(***************************************************************************)
Resolves(image_id, dir) ==
    \E name \in DOMAIN dir : StartsWith(name, image_id \o <<"_">>)

\* C1: GET /predict/<id> answers 404 never for an image_id an earlier upload
\* returned, and always for an id no upload returned ("oct", an id followed
\* by a part of the saved name, ...).
C1_PredictNotFoundIffNeverIssued ==
    resp.op = "predict" => (resp.status = NotFound <=> resp.id \notin issued)

\* the filename ends, ignoring case, with "." and one of the allowed extensions
EndsWithAllowedExtension(filename) ==
    \E e \in ALLOWED_EXTENSIONS :
        /\ Len(filename) > Len(e)
        /\ filename[Len(filename) - Len(e)] = "."
        /\ Lower(SubSeq(filename, Len(filename) - Len(e) + 1, Len(filename))) = e

\* C2: POST /upload answers 400 and leaves the upload directory as it was
\* when the field is absent, the filename empty or the extension not allowed;
\* otherwise it adds exactly one file, named "<image_id>_...", and returns
\* that image_id.
C2_UploadAddsExactlyOneFile ==
    [][ \A file \in UploadFiles, hex8 \in UuidHex8 :
          upload_image(file, hex8) =>
            IF ~file.present \/ file.filename = <<>>
                  \/ ~EndsWithAllowedExtension(file.filename)
            THEN /\ resp'.status = BadRequest
                 /\ uploads' = uploads
            ELSE /\ resp'.status = OK
                 /\ resp'.id = generate_image_id(hex8)
                 /\ Cardinality(DOMAIN uploads') = Cardinality(DOMAIN uploads) + 1
                 /\ \A name \in DOMAIN uploads :
                        name \in DOMAIN uploads' /\ uploads'[name] = uploads[name]
                 /\ \A name \in (DOMAIN uploads') \ (DOMAIN uploads) :
                        StartsWith(name, resp'.id \o <<"_">>) ]_vars

\* C3: once an upload has saved a file, no later request changes, renames,
\* overwrites or removes it.
C3_UploadedFileNeverMutated ==
    [][ \A name \in DOMAIN uploads :
          name \in DOMAIN uploads' /\ uploads'[name] = uploads[name] ]_vars

HexChars == { HexDigits[i] : i \in 1..Len(HexDigits) }

\* "oct_" followed by HexLen lowercase hex characters
IsImageIdFormat(id) ==
    /\ Len(id) = HexLen + 4
    /\ SubSeq(id, 1, 4) = <<"o","c","t","_">>
    /\ \A k \in 5..Len(id) : id[k] \in HexChars

\* C4: every image_id an upload returns is "oct_" plus 8 lowercase hex
\* characters and differs from the image_id of every earlier upload.
C4_ImageIdsDistinct ==
    [][ (resp'.op = "upload" /\ resp'.status = OK) =>
          (IsImageIdFormat(resp'.id) /\ resp'.id \notin issued) ]_vars

\* C5: requests handled one after another load the model lazily and once:
\* nothing is loaded at startup or by a request that loads nothing (every
\* 400/404 and every handler but predict and report); a predict or report
\* request whose id resolves calls load_model when the slot is empty; the
\* model is loaded successfully at most once, and from then on every such
\* request reuses the cached model.
C5_LazyLoadOnce ==
    /\ [](nLoads <= 1)
    /\ [](resp.op = "none" => (_model = None /\ nLoads = 0))
    /\ []((resp.status \in {BadRequest, NotFound}
              \/ resp.op \notin {"predict", "report"}) => resp.load = "none")
    /\ [][ resp'.load = "none" => (_model' = _model /\ nLoads' = nLoads) ]_vars
    /\ [][ (resp'.op \in {"predict", "report"} /\ Resolves(resp'.id, uploads)) =>
             IF _model = None
             THEN /\ resp'.load \in {"ok", "failed"}
                  /\ (resp'.load = "ok") <=> (nLoads' = nLoads + 1 /\ _model' # None)
             ELSE /\ resp'.load = "cached"
                  /\ _model' = _model
                  /\ nLoads' = nLoads ]_vars

\* C5 witness: the model was loaded once and a later request reused it
C5_Witness == nLoads = 1 /\ resp.load = "cached" /\ resp.status = OK

IsResult(r) == "predictions" \in DOMAIN r

\* C6: a result of predict_oct has len(class_names) = 8 predictions, each a
\* probability in [0,1] (k / ProbLevels), top_disease is a label of maximal
\* probability, and confidence = predictions[top_disease].
C6_PredictionResult ==
    IsResult(result) =>
        /\ Cardinality(DOMAIN result.predictions) = Len(CLASS_NAMES)
        /\ Cardinality(DOMAIN result.predictions) = 8
        /\ \A l \in DOMAIN result.predictions : result.predictions[l] \in 0..ProbLevels
        /\ result.top_disease \in DOMAIN result.predictions
        /\ \A l \in DOMAIN result.predictions :
              result.predictions[l] <= result.predictions[result.top_disease]
        /\ result.confidence = result.predictions[result.top_disease]

\* C6 witness: a result whose maximum is shared by two labels and is not the
\* first probability
C6_Witness ==
    /\ IsResult(result)
    /\ result.top_disease = "DME"
    /\ result.predictions["MH"] = result.confidence
    /\ result.predictions["AMD"] < result.confidence

ExpectedReportName(image_id) ==
    image_id \o <<"_","r","e","p","o","r","t",".","p","d","f">>

\* C7: a successful GET /report/<id> writes <id>_report.pdf, replacing the
\* report written earlier for that id, so the reports directory holds exactly
\* one file per id reported; a report request that answers 404 (its id
\* resolves to no uploaded file) or fails leaves the directory as it was.
C7_OneReportPerId ==
    /\ [](DOMAIN reports = { ExpectedReportName(id) : id \in reportedIds })
    /\ [](Cardinality(DOMAIN reports) = Cardinality(reportedIds))
    /\ [][ (resp'.op = "report" /\ resp'.status = OK) =>
             /\ DOMAIN reports' = (DOMAIN reports) \cup {ExpectedReportName(resp'.id)}
             /\ reports'[ExpectedReportName(resp'.id)] = PdfBody(nReports')
             /\ \A name \in (DOMAIN reports) \ {ExpectedReportName(resp'.id)} :
                    reports'[name] = reports[name] ]_vars
    /\ [][ (resp'.op = "report" /\ ~Resolves(resp'.id, uploads)) =>
             (resp'.status = NotFound /\ reports' = reports) ]_vars
    /\ [][ (resp'.op = "report" /\ resp'.status # OK) => reports' = reports ]_vars

\* C7 witness: two reports were built for one id and one file is there, the
\* second report
C7_Witness ==
    /\ nReports = 2
    /\ Cardinality(reportedIds) = 1
    /\ resp.op = "report" /\ resp.status = OK
    /\ reports[ExpectedReportName(resp.id)] = PdfBody(2)

\* C8: is_allowed_file is true exactly for the filenames that end, ignoring
\* case, with "." and one of png, jpg, jpeg, dcm; so it is false for a name
\* with no ".", a name ending in ".", and a name whose allowed extension is
\* not its last suffix.
C8_AllowedIffLastSuffix ==
    allowedOut # <<>> =>
        /\ allowedOut[1] = EndsWithAllowedExtension(fname)
        /\ ~Contains(fname, ".") => allowedOut[1] = FALSE
        /\ (fname # <<>> /\ fname[Len(fname)] = ".") => allowedOut[1] = FALSE
        /\ (\E i \in 1..Len(fname) :
               /\ fname[i] = "."
               /\ Contains(SubSeq(fname, i + 1, Len(fname)), ".")
               /\ Lower(RSplitLast(fname, ".")) \notin ALLOWED_EXTENSIONS)
             => allowedOut[1] = FALSE

\* C8 witness: an upper-case extension after a second "." is accepted
C8_Witness ==
    /\ allowedOut = <<TRUE>>
    /\ fname = <<".", ".", "P", "n", "g">>

\* C9 as stated: after a load failure no later request calls load_model again.
C9_NoRetryAfterFailure ==
    [][ loadFailed => resp'.load \notin {"ok", "failed"} ]_vars

\* C9 as amended: a load failure leaves the slot empty, and every later
\* predict or report request whose id resolves calls load_model again, until
\* a load succeeds.
C9_RetryAfterFailure ==
    /\ []((loadFailed /\ nLoads = 0) => _model = None)
    /\ [][ (loadFailed /\ nLoads = 0 /\ resp'.op \in {"predict", "report"}
               /\ Resolves(resp'.id, uploads))
             => resp'.load \in {"ok", "failed"} ]_vars

\* C9 witness: a load failed, and a later request loaded the model
C9_Witness == loadFailed /\ nLoads = 1 /\ resp.load = "ok"

\* C10: nothing but the test of the slot stands between a request and
\* load_model: a request goes on to load exactly when it found the slot
\* empty, whatever the other threads are doing, so each thread can load the
\* model once and the model can be loaded more than once.
C10_UnguardedCache ==
    /\ [](nLoads <= NumThreads)
    /\ [][ \A t \in Threads :
             (pc[t] = "test" /\ pc'[t] # "test") =>
                 (pc'[t] = "load" <=> _model = None) ]_vars

\* C10 witness: the model has been loaded twice, by two requests that both
\* passed the test before either stored
C10_Witness ==
    /\ nLoads > 1
    /\ \E t \in Threads : pc[t] = "store" /\ _model = None

====
